---- MODULE Spec2Model ----
(***************************************************************************)
(* Model of the two CAD scripts of the braille display conveyor belt:      *)
(*   cad/conveyor_assembly_jig.py  (flat jig: box, magnet pockets, gaps)   *)
(*   cad/magnetic_pulley.py        (pulley: cylinder, hex pockets,         *)
(*                                  flanges, centre bore)                  *)
(* and of the __main__ driver both scripts share (build the parts, warn    *)
(* about a non-manifold part, export .stl and .step).                      *)
(*                                                                         *)
(* Lengths are millimetres and angles are degrees, as in the source.  The  *)
(* source computes with floats; the model computes with exact rationals    *)
(* <<numerator, denominator>> in lowest terms with a positive denominator. *)
(* A solid is the ordered list of the boolean operations applied to the    *)
(* empty part: p += shape appends an "add", p -= shape appends a "sub".    *)
(***************************************************************************)
EXTENDS Integers, Sequences, FiniteSets, TLC

(***************************************************************************)
(* Rational arithmetic (the float arithmetic of the source).               *)
(***************************************************************************)
Abs(n) == IF n < 0 THEN -n ELSE n

RECURSIVE GCD(_, _)
GCD(a, b) == IF b = 0 THEN a ELSE GCD(b, a % b)

R(n, d) ==
    LET s == IF d < 0 THEN -1 ELSE 1
        g == GCD(Abs(n), Abs(d))
    IN  <<(s * n) \div g, (s * d) \div g>>

RInt(n) == <<n, 1>>

RAdd(a, b) == R(a[1] * b[2] + b[1] * a[2], a[2] * b[2])

RNeg(a) == <<-a[1], a[2]>>

RSub(a, b) == RAdd(a, RNeg(b))

RMul(a, b) == R(a[1] * b[1], a[2] * b[2])

RDiv(a, b) == R(a[1] * b[2], a[2] * b[1])

RAbs(a) == <<Abs(a[1]), a[2]>>

RLt(a, b) == a[1] * b[2] < b[1] * a[2]

RLe(a, b) == a[1] * b[2] <= b[1] * a[2]

RPos(a) == a[1] > 0

\* The direction of a rotation by a degrees: a modulo a full turn.
RMod360(a) == R(a[1] % (360 * a[2]), a[2])

(***************************************************************************)
(* math.pi.  The model compares a circumference c with pi * q, where c and *)
(* q are multiples of 0.05 mm and q is below 50 mm and no multiple of      *)
(* 5.65 mm.  For those 355/113 orders c and q as pi does: 355/113 exceeds  *)
(* pi by less than 3 * 10^-7, while 355 * q / 113 is at least 0.05 / 113   *)
(* away from every multiple of 0.05.                                       *)
(***************************************************************************)
PiNum == 355

PiDen == 113

pi == R(PiNum, PiDen)

(***************************************************************************)
(* Bounds of the model.                                                    *)
(***************************************************************************)
\* magnetic_pulley(spec) is called with 1..MaxCellCount cells.
MaxCellCount == 4

\* conveyor_assembly_jig(spec) is called with 1..MaxCellCountX by
\* 1..MaxCellCountY cells.
MaxCellCountX == 2

MaxCellCountY == 2

(***************************************************************************)
(* build123d_ease.evenly_space_with_center(count, spacing, center): count  *)
(* values spaced by spacing and centred on center, in ascending order.     *)
(***************************************************************************)
evenly_space_with_center(count, spacing, center) ==
    [i \in 1..count |->
        RAdd(center, RMul(spacing, R(2 * (i - 1) - (count - 1), 2)))]

\* itertools.product(xs, ys): the pairs in the order the loop visits them
\* (the last sequence varies fastest).
product(xs, ys) ==
    [m \in 1..(Len(xs) * Len(ys)) |->
        <<xs[((m - 1) \div Len(ys)) + 1], ys[((m - 1) % Len(ys)) + 1]>>]

(***************************************************************************)
(* Rigid transforms and alignment, as the builders use them.               *)
(***************************************************************************)
Zero == RInt(0)

Origin == <<Zero, Zero, Zero>>

Translate(v) == [t |-> "translate", axis |-> "-", angle |-> Zero, v |-> v]

Rotate(axis, angle) ==
    [t |-> "rotate", axis |-> axis, angle |-> angle, v |-> Origin]

\* The extent [lo, hi] along one axis of a primitive of the given size whose
\* alignment on that axis is align, after a translation by pos:
\* MIN puts its lower face, MAX its upper face and CENTER its middle at pos.
Extent(align, size, pos) ==
    CASE align = "MIN"    -> <<pos, RAdd(pos, size)>>
      [] align = "MAX"    -> <<RSub(pos, size), pos>>
      [] align = "CENTER" -> <<RSub(pos, RDiv(size, RInt(2))),
                               RAdd(pos, RDiv(size, RInt(2)))>>

\* bde.align.ANCHOR_BOTTOM, ANCHOR_TOP, ANCHOR_CENTER: centred in x and y,
\* and the bottom face, the top face or the middle at z = 0.
ANCHOR_BOTTOM == <<"CENTER", "CENTER", "MIN">>

ANCHOR_TOP == <<"CENTER", "CENTER", "MAX">>

ANCHOR_CENTER == <<"CENTER", "CENTER", "CENTER">>

(***************************************************************************)
(* magnetic_pulley.py: class Spec.                                         *)
(***************************************************************************)
\* Spec(): every field at its default.
PulleyDefault ==
    [magnet_d |-> R(20, 10), magnet_h |-> R(6, 10),
     dot_pitch_x |-> R(25, 10), dot_pitch_y |-> R(25, 10),
     cell_pitch_x |-> R(60, 10), cell_pitch_y |-> R(100, 10),
     cell_count_around_circumference |-> 3,
     pulley_body_length |-> R(85, 10), flange_lip_height |-> R(12, 10),
     center_hole_d |-> R(20, 10)]

\* The Specs a caller of magnetic_pulley passes: positive dimensions, at
\* least one cell; the defaults and values around them.
PulleySpecs ==
    [magnet_d : {R(20, 10)}, magnet_h : {R(6, 10), R(60, 10)},
     dot_pitch_x : {R(25, 10), R(60, 10)},
     dot_pitch_y : {R(25, 10), R(50, 10)},
     cell_pitch_x : {R(60, 10), R(30, 10)}, cell_pitch_y : {R(100, 10)},
     cell_count_around_circumference : 1..MaxCellCount,
     pulley_body_length : {R(85, 10)},
     flange_lip_height : {R(12, 10), R(5, 10)},
     center_hole_d : {R(20, 10), R(100, 10)}]

pulley_body_circumference(spec) ==
    RMul(RInt(spec.cell_count_around_circumference), spec.cell_pitch_x)

pulley_body_od(spec) == RDiv(pulley_body_circumference(spec), pi)

\* circumference_mm_to_angle had it reduced the angle to one turn.
circumference_mm_to_angle_wrapped(spec, mm) ==
    RMod360(RMul(RDiv(mm, pulley_body_circumference(spec)), RInt(360)))

circumference_mm_to_angle(spec, mm) ==
    RMul(RDiv(mm, pulley_body_circumference(spec)), RInt(360))

(***************************************************************************)
(* magnetic_pulley.py: the shapes magnetic_pulley(spec) adds and cuts.     *)
(***************************************************************************)
\* p += bd.Cylinder(radius=pulley_body_od / 2, height=pulley_body_length)
PulleyBody(spec) ==
    [kind |-> "add", shape |-> "Cylinder",
     dims |-> <<RDiv(pulley_body_od(spec), RInt(2)), spec.pulley_body_length>>,
     align |-> ANCHOR_CENTER, xforms |-> <<>>]

\* The (dot_pos_around_circumference, dot_z) pairs of one cell.
PulleyDots(spec) ==
    product(evenly_space_with_center(2, spec.dot_pitch_x, Zero),
            evenly_space_with_center(3, spec.dot_pitch_y, Zero))

\* The number of iterations of the two nested loops.
PulleyCutCount(spec) ==
    spec.cell_count_around_circumference * Len(PulleyDots(spec))

dot_angle_pos(spec, cell_idx, dot_pos_around_circumference) ==
    RAdd(R(cell_idx * 360, spec.cell_count_around_circumference),
         circumference_mm_to_angle(spec, dot_pos_around_circumference))

\* The length of the extruded hexagon ("Must extend out far!").
PocketLength == 5

\* PocketTransforms had the prism been moved before it was turned about Y.
PocketTransforms_translate_first(spec, angle, dot_z) ==
    <<Translate(<<RSub(RDiv(pulley_body_od(spec), RInt(2)), spec.magnet_h),
                  Zero, dot_z>>),
      Rotate("Y", RInt(90)),
      Rotate("Z", angle)>>

\* The three transforms of a pocket, in the order they are chained.
PocketTransforms(spec, angle, dot_z) ==
    <<Rotate("Y", RInt(90)),
      Translate(<<RSub(RDiv(pulley_body_od(spec), RInt(2)), spec.magnet_h),
                  Zero, dot_z>>),
      Rotate("Z", angle)>>

\* The pocket cut in iteration it (0-based) of the nested loops.
PulleyPocket(spec, it) ==
    LET cell_idx == it \div Len(PulleyDots(spec))
        dot      == PulleyDots(spec)[(it % Len(PulleyDots(spec))) + 1]
    IN  [kind |-> "sub", shape |-> "HexPrism",
         dims |-> <<RSub(RDiv(spec.magnet_d, RInt(2)), R(1, 10)),
                    RInt(PocketLength)>>,
         align |-> <<"CENTER", "CENTER", "MIN">>,
         xforms |-> PocketTransforms(spec,
                        dot_angle_pos(spec, cell_idx, dot[1]), dot[2])]

\* The two (align, z_sign) pairs of the flange loop.
FlangeSides == <<[align |-> ANCHOR_BOTTOM, z_sign |-> 1],
                 [align |-> ANCHOR_TOP, z_sign |-> -1]>>

PulleyFlange(spec, side) ==
    [kind |-> "add", shape |-> "Cylinder",
     dims |-> <<RAdd(RDiv(pulley_body_od(spec), RInt(2)),
                     spec.flange_lip_height),
                spec.flange_lip_height>>,
     align |-> FlangeSides[side].align,
     xforms |-> <<Translate(<<Zero, Zero,
                     RDiv(RMul(RInt(FlangeSides[side].z_sign),
                               spec.pulley_body_length), RInt(2))>>)>>]

\* CenterHoleHeight had it counted one flange only.
CenterHoleHeight_one_lip(spec) ==
    RAdd(spec.pulley_body_length, spec.flange_lip_height)

\* height=spec.pulley_body_length + 2 * spec.flange_lip_height
CenterHoleHeight(spec) ==
    RAdd(spec.pulley_body_length,
         RMul(RInt(2), spec.flange_lip_height))

PulleyCenterHole(spec) ==
    [kind |-> "sub", shape |-> "Cylinder",
     dims |-> <<RDiv(spec.center_hole_d, RInt(2)), CenterHoleHeight(spec)>>,
     align |-> ANCHOR_CENTER, xforms |-> <<>>]

(***************************************************************************)
(* conveyor_assembly_jig.py: class Spec.                                   *)
(***************************************************************************)
\* Spec(): every field at its default.
JigDefault ==
    [magnet_d |-> R(21, 10), magnet_h |-> R(12, 10),
     dot_pitch_x |-> R(25, 10), dot_pitch_y |-> R(25, 10),
     cell_pitch_x |-> R(60, 10), cell_pitch_y |-> R(100, 10),
     cell_count_x |-> 4, cell_count_y |-> 2,
     total_z |-> R(50, 10),
     arm_width_on_long_side |-> R(50, 10),
     arm_width_along_short_gap |-> R(40, 10),
     arm_gap_width |-> R(60, 10)]

\* The Specs a caller of conveyor_assembly_jig passes: positive dimensions,
\* at least one cell each way; the defaults and values around them.
JigSpecs ==
    [magnet_d : {R(21, 10), R(120, 10)}, magnet_h : {R(12, 10)},
     dot_pitch_x : {R(25, 10), R(60, 10), R(80, 10)},
     dot_pitch_y : {R(25, 10), R(100, 10)},
     cell_pitch_x : {R(60, 10), R(30, 10)}, cell_pitch_y : {R(100, 10)},
     cell_count_x : 1..MaxCellCountX, cell_count_y : 1..MaxCellCountY,
     total_z : {R(50, 10)},
     arm_width_on_long_side : {R(50, 10), R(15, 10)},
     arm_width_along_short_gap : {R(40, 10), R(200, 10)},
     arm_gap_width : {R(60, 10), R(20, 10)}]

\* The margin 5.0 that total_x and total_y add on each side.
Margin == 5

\* total_x had it added the 5.0 margin on one side only.
total_x_one_margin(spec) ==
    RAdd(RAdd(RMul(RInt(spec.cell_count_x), spec.cell_pitch_x),
              RInt(Margin)),
         RAdd(RMul(RInt(2), spec.arm_width_on_long_side),
              RMul(RInt(2), spec.arm_gap_width)))

total_x(spec) ==
    RAdd(RAdd(RMul(RInt(spec.cell_count_x), spec.cell_pitch_x),
              RMul(RInt(2), RInt(Margin))),
         RAdd(RMul(RInt(2), spec.arm_width_on_long_side),
              RMul(RInt(2), spec.arm_gap_width)))

total_y(spec) ==
    RAdd(RMul(RInt(spec.cell_count_y), spec.cell_pitch_y),
         RMul(RInt(2), RInt(Margin)))

(***************************************************************************)
(* conveyor_assembly_jig.py: the shapes conveyor_assembly_jig(spec) adds   *)
(* and cuts.                                                               *)
(***************************************************************************)
\* p += bd.Box(total_x, total_y, total_z, align=ANCHOR_BOTTOM)
JigBox(spec) ==
    [kind |-> "add", shape |-> "Box",
     dims |-> <<total_x(spec), total_y(spec), spec.total_z>>,
     align |-> ANCHOR_BOTTOM, xforms |-> <<>>]

\* The (cell_center_x, cell_center_y) pairs of the outer loop.
JigCells(spec) ==
    product(evenly_space_with_center(spec.cell_count_x, spec.cell_pitch_x, Zero),
            evenly_space_with_center(spec.cell_count_y, spec.cell_pitch_y, Zero))

\* The (dot_x, dot_y) pairs of the inner loop for one cell.
JigDots(spec, cell) ==
    product(evenly_space_with_center(2, spec.dot_pitch_x, cell[1]),
            evenly_space_with_center(3, spec.dot_pitch_y, cell[2]))

\* The number of dots of a cell (2 by 3).
DotsPerCell == 6

\* The number of iterations of the two nested loops.
JigCutCount(spec) == Len(JigCells(spec)) * DotsPerCell

\* The magnet hole cut in iteration it (0-based) of the nested loops.
JigMagnet(spec, it) ==
    LET cell == JigCells(spec)[(it \div DotsPerCell) + 1]
        dot  == JigDots(spec, cell)[(it % DotsPerCell) + 1]
    IN  [kind |-> "sub", shape |-> "Cylinder",
         dims |-> <<RDiv(spec.magnet_d, RInt(2)), spec.magnet_h>>,
         align |-> ANCHOR_TOP,
         xforms |-> <<Translate(<<dot[1], dot[2], spec.total_z>>)>>]

\* for x_sign in (1, -1)
ArmGapSigns == <<1, -1>>

\* ArmGapX had it left the arm width out.
ArmGapX_no_arm(spec, x_sign) ==
    RMul(RInt(x_sign),
         RSub(RDiv(total_x(spec), RInt(2)), RDiv(spec.arm_gap_width, RInt(2))))

\* The x position of an arm gap's centre.
ArmGapX(spec, x_sign) ==
    RMul(RInt(x_sign),
         RSub(RSub(RDiv(total_x(spec), RInt(2)), spec.arm_width_on_long_side),
              RDiv(spec.arm_gap_width, RInt(2))))

JigArmGap(spec, side) ==
    [kind |-> "sub", shape |-> "Box",
     dims |-> <<spec.arm_gap_width,
                RSub(total_y(spec),
                     RMul(RInt(2), spec.arm_width_along_short_gap)),
                spec.total_z>>,
     align |-> ANCHOR_BOTTOM,
     xforms |-> <<Translate(<<ArmGapX(spec, ArmGapSigns[side]),
                              Zero, Zero>>)>>]

(***************************************************************************)
(* The parts dictionary of each script's __main__ block.                   *)
(***************************************************************************)
PulleyParts ==
    <<[name |-> "magnetic_pulley_3_cells",
       spec |-> [PulleyDefault EXCEPT !.cell_count_around_circumference = 3]],
      [name |-> "magnetic_pulley_4_cells",
       spec |-> [PulleyDefault EXCEPT !.cell_count_around_circumference = 4]]>>

JigParts == <<[name |-> "conveyor_assembly_jig", spec |-> JigDefault]>>

Parts(s) == IF s = "pulley" THEN PulleyParts ELSE JigParts

Specs(s) == IF s = "pulley" THEN PulleySpecs ELSE JigSpecs

(***************************************************************************)
(* State.                                                                  *)
(*   script   which file runs: "jig" or "pulley"                           *)
(*   mode     "call": the builder is called with a Spec of the caller's;   *)
(*            "main": the file runs as a script (its __main__ block)       *)
(*   spec     the arguments of the Spec being constructed, then the Spec   *)
(*   pc       the statement about to run                                   *)
(*   k        pocket-loop iterations done                                  *)
(*   j        flange-loop or arm-gap-loop iterations done                  *)
(*   p        the part under construction                                  *)
(*   part_i   in "main", the index of the dictionary entry being built     *)
(*   parts    in "main", the dictionary entries built so far               *)
(*   li       in "main", the index of the export loop                      *)
(*   manifold the value part.is_manifold had for each part visited         *)
(*   events   log records and exported files, in the order produced        *)
(***************************************************************************)
VARIABLES script, mode, spec, pc, k, j, p, part_i, parts, li, manifold, events

vars == <<script, mode, spec, pc, k, j, p, part_i, parts, li, manifold, events>>

Event(ev, name, file) == [ev |-> ev, name |-> name, file |-> file]

Init ==
    /\ script \in {"jig", "pulley"}
    /\ mode \in {"call", "main"}
    /\ spec \in (IF mode = "call" THEN Specs(script)
                                  ELSE {Parts(script)[1].spec})
    /\ pc = "Spec"
    /\ k = 0
    /\ j = 0
    /\ p = <<>>
    /\ part_i = IF mode = "main" THEN 1 ELSE 0
    /\ parts = <<>>
    /\ li = 0
    /\ manifold = <<>>
    /\ events = <<>>

(***************************************************************************)
(* Spec.__init__ and Spec.__post_init__.  The jig's __post_init__ has an   *)
(* empty body; the pulley's logs the two derived quantities.  Neither      *)
(* inspects a field or raises.                                             *)
(***************************************************************************)
PostInitRaises(s, sp) == FALSE

SpecPostInit ==
    /\ pc = "Spec"
    /\ pc' = IF PostInitRaises(script, spec) THEN "invalid" ELSE "body"
    /\ events' = IF script = "pulley" /\ ~PostInitRaises(script, spec)
                 THEN Append(events, Event("info", "Pulley data", ""))
                 ELSE events
    /\ UNCHANGED <<script, mode, spec, k, j, p, part_i, parts, li, manifold>>

(***************************************************************************)
(* The builders.                                                           *)
(***************************************************************************)
CutCount(s, sp) == IF s = "pulley" THEN PulleyCutCount(sp) ELSE JigCutCount(sp)

\* p = bd.Part(None); p += the body cylinder (pulley) or the base box (jig).
AddBody ==
    /\ pc = "body"
    /\ p' = <<IF script = "pulley" THEN PulleyBody(spec) ELSE JigBox(spec)>>
    /\ k' = 0
    /\ j' = 0
    /\ pc' = IF CutCount(script, spec) = 0 THEN "sides" ELSE "magnets"
    /\ UNCHANGED <<script, mode, spec, part_i, parts, li, manifold, events>>

\* One iteration of the nested magnet loops: p -= one pocket.
CutMagnet ==
    /\ pc = "magnets"
    /\ p' = Append(p, IF script = "pulley" THEN PulleyPocket(spec, k)
                                           ELSE JigMagnet(spec, k))
    /\ k' = k + 1
    /\ pc' = IF k + 1 = CutCount(script, spec) THEN "sides" ELSE "magnets"
    /\ UNCHANGED <<script, mode, spec, j, part_i, parts, li, manifold, events>>

\* One iteration of the pulley's flange loop: p += one flange.
AddFlange ==
    /\ pc = "sides"
    /\ script = "pulley"
    /\ p' = Append(p, PulleyFlange(spec, j + 1))
    /\ j' = j + 1
    /\ pc' = IF j + 1 = Len(FlangeSides) THEN "hole" ELSE "sides"
    /\ UNCHANGED <<script, mode, spec, k, part_i, parts, li, manifold, events>>

\* p -= the centre hole.
CutCenterHole ==
    /\ pc = "hole"
    /\ p' = Append(p, PulleyCenterHole(spec))
    /\ pc' = "return"
    /\ UNCHANGED <<script, mode, spec, k, j, part_i, parts, li, manifold, events>>

\* One iteration of the jig's arm-gap loop: p -= one gap.
CutArmGap ==
    /\ pc = "sides"
    /\ script = "jig"
    /\ p' = Append(p, JigArmGap(spec, j + 1))
    /\ j' = j + 1
    /\ pc' = IF j + 1 = Len(ArmGapSigns) THEN "return" ELSE "sides"
    /\ UNCHANGED <<script, mode, spec, k, part_i, parts, li, manifold, events>>

\* The geometry kernel rejects the operation about to run: the exception
\* propagates out of the builder and, in "main", ends the script.
KernelReject ==
    /\ pc \in {"body", "magnets", "sides", "hole"}
    /\ pc' = "raised"
    /\ UNCHANGED <<script, mode, spec, k, j, p, part_i, parts, li, manifold, events>>

\* return p.  In "main" the part goes through show() into the dictionary
\* and the next entry's Spec is constructed; after the last entry the
\* export folder is set up.
Return ==
    /\ pc = "return"
    /\ IF mode = "call"
       THEN /\ pc' = "returned"
            /\ UNCHANGED <<spec, k, j, p, part_i, parts>>
       ELSE /\ parts' = Append(parts, [name |-> Parts(script)[part_i].name,
                                       part |-> p])
            /\ IF part_i < Len(Parts(script))
               THEN /\ part_i' = part_i + 1
                    /\ spec' = Parts(script)[part_i + 1].spec
                    /\ pc' = "Spec"
                    /\ p' = <<>>
                    /\ k' = 0
                    /\ j' = 0
               ELSE /\ pc' = "export_setup"
                    /\ UNCHANGED <<spec, k, j, p, part_i>>
    /\ UNCHANGED <<script, mode, li, manifold, events>>

(***************************************************************************)
(* The __main__ block after the dictionary is built.                       *)
(***************************************************************************)
\* logger.info("Showing CAD model(s)"); export_folder.mkdir(...)
StartExport ==
    /\ pc = "export_setup"
    /\ events' = Append(events, Event("info", "Showing CAD model(s)", ""))
    /\ li' = 1
    /\ pc' = IF Len(parts) = 0 THEN "done" ELSE "check"
    /\ UNCHANGED <<script, mode, spec, k, j, p, part_i, parts, manifold>>

\* AfterManifoldCheck had a part that is not manifold ended the script.
AfterManifoldCheck_fatal(is_manifold) ==
    IF is_manifold THEN "stl" ELSE "raised"

\* The statement that runs after "if not part.is_manifold: warning".
AfterManifoldCheck(is_manifold) == "stl"

\* The isinstance assertion (a part the builder returned passes it), then
\* if not part.is_manifold: logger.warning(...).
CheckManifold ==
    /\ pc = "check"
    /\ \E is_manifold \in BOOLEAN :
        /\ manifold' = Append(manifold, is_manifold)
        /\ events' = IF is_manifold THEN events
                     ELSE Append(events, Event("warning", parts[li].name, ""))
        /\ pc' = AfterManifoldCheck(is_manifold)
    /\ UNCHANGED <<script, mode, spec, k, j, p, part_i, parts, li>>

\* bd.export_stl(part, export_folder / f"{name}.stl")
ExportStl ==
    /\ pc = "stl"
    /\ events' = Append(events, Event("export_stl", parts[li].name,
                                      parts[li].name \o ".stl"))
    /\ pc' = "step"
    /\ UNCHANGED <<script, mode, spec, k, j, p, part_i, parts, li, manifold>>

\* bd.export_step(part, export_folder / f"{name}.step"), then the next part.
ExportStep ==
    /\ pc = "step"
    /\ events' = Append(events, Event("export_step", parts[li].name,
                                      parts[li].name \o ".step"))
    /\ li' = li + 1
    /\ pc' = IF li < Len(parts) THEN "check" ELSE "done"
    /\ UNCHANGED <<script, mode, spec, k, j, p, part_i, parts, manifold>>

Next ==
    \/ SpecPostInit
    \/ AddBody
    \/ CutMagnet
    \/ AddFlange
    \/ CutCenterHole
    \/ CutArmGap
    \/ KernelReject
    \/ Return
    \/ StartExport
    \/ CheckManifold
    \/ ExportStl
    \/ ExportStep

Spec == Init /\ [][Next]_vars

\* The script runs on: a statement of the export loop that can run does run.
LiveSpec == Spec /\ WF_vars(CheckManifold \/ ExportStl \/ ExportStep)

(***************************************************************************)
(* Reading the geometry off a part.                                        *)
(***************************************************************************)
\* The operations of p that cut a magnet pocket, an arm gap, or add material.
PocketIdx ==
    {i \in 1..Len(p) :
        p[i].kind = "sub"
        /\ p[i].shape = (IF script = "pulley" THEN "HexPrism" ELSE "Cylinder")
        /\ p[i].xforms # <<>>}

GapIdx == {i \in 1..Len(p) : p[i].kind = "sub" /\ p[i].shape = "Box"}

\* The image of a point under one transform.  A point is held as the
\* Cartesian point (x, y, z) turned about the z axis by theta degrees.
ApplyXform(q, f) ==
    CASE f.t = "translate" ->
            [q EXCEPT !.x = RAdd(q.x, f.v[1]), !.y = RAdd(q.y, f.v[2]),
                      !.z = RAdd(q.z, f.v[3])]
      [] f.t = "rotate" /\ f.axis = "Y" /\ f.angle = RInt(90) ->
            [q EXCEPT !.x = q.z, !.z = RNeg(q.x)]
      [] f.t = "rotate" /\ f.axis = "Z" ->
            [q EXCEPT !.theta = RAdd(q.theta, f.angle)]

RECURSIVE ApplyAll(_, _)
ApplyAll(q, fs) ==
    IF fs = <<>> THEN q ELSE ApplyAll(ApplyXform(q, Head(fs)), Tail(fs))

\* Where the point at distance t along the extrusion axis of primitive op
\* (the z axis, from the primitive's origin) ends up.
AxisPoint(op, t) ==
    ApplyAll([x |-> Zero, y |-> Zero, z |-> t, theta |-> Zero], op.xforms)

\* The centre of a jig magnet hole or arm gap: its translation.
Centre(op) == AxisPoint(op, Zero)

\* The axial extent of a cylinder that stays on the z axis.
ZRange(op) == Extent(op.align[3], op.dims[2], Centre(op).z)

\* The x and y extents of a box.
XRange(op) == Extent(op.align[1], op.dims[1], Centre(op).x)

YRange(op) == Extent(op.align[2], op.dims[2], Centre(op).y)

(***************************************************************************)
(* C5.  pulley_body_circumference is cell_count_around_circumference *     *)
(* cell_pitch_x (18 for 3 cells at pitch 6); circumference_mm_to_angle is  *)
(* mm / circumference * 360 for every signed mm, unclamped and unwrapped:  *)
(* doubling mm doubles the angle and the whole circumference maps to 360;  *)
(* every pocket cut so far is turned about Z by cell_idx * 360 / count     *)
(* plus the mapped offset of its own dot.                                  *)
(***************************************************************************)
\* The offsets probed: -MaxProbe/2 .. MaxProbe/2 mm in steps of 0.5 mm,
\* which reaches beyond one circumference either way.
MaxProbe == 30

MmProbes == {R(m, 2) : m \in (-MaxProbe)..MaxProbe}

\* 360 * (cell_idx * cell_pitch_x + offset) / circumference, where the dot
\* of iteration it sits at -dot_pitch_x/2 (first three) or +dot_pitch_x/2.
ExpectedDotAngle(sp, it) ==
    LET cell_idx == it \div DotsPerCell
        column   == (it % DotsPerCell) \div 3
        offset   == RMul(R(2 * column - 1, 2), sp.dot_pitch_x)
    IN  RDiv(RMul(RInt(360),
                  RAdd(RMul(RInt(cell_idx), sp.cell_pitch_x), offset)),
             RMul(RInt(sp.cell_count_around_circumference), sp.cell_pitch_x))

\* C5: the circumference is count * pitch, the mapper is linear and neither
\* clamps nor wraps, and each pocket's angle is its cell's base angle plus
\* the mapped offset of its own dot.
C5_Mapper ==
    script = "pulley" =>
        LET c == pulley_body_circumference(spec)
        IN  /\ c = R(spec.cell_count_around_circumference * spec.cell_pitch_x[1],
                     spec.cell_pitch_x[2])
            /\ (spec.cell_count_around_circumference = 3
                    /\ spec.cell_pitch_x = RInt(6) => c = RInt(18))
            /\ circumference_mm_to_angle(spec, c) = RInt(360)
            /\ \A mm \in MmProbes :
                /\ circumference_mm_to_angle(spec, mm)
                       = R(360 * mm[1] * c[2], mm[2] * c[1])
                /\ circumference_mm_to_angle(spec, RMul(RInt(2), mm))
                       = RMul(RInt(2), circumference_mm_to_angle(spec, mm))
            /\ \A i \in PocketIdx :
                p[i].xforms[3].angle = ExpectedDotAngle(spec, i - 2)

\* A pulley of 3 cells at pitch 6 has been built: 18 pockets were cut, the
\* last of them at 240 + 25 = 265 degrees.
C5_Witness ==
    /\ script = "pulley"
    /\ pc = "returned"
    /\ spec.cell_count_around_circumference = 3
    /\ spec.cell_pitch_x = RInt(6)
    /\ spec.dot_pitch_x = R(5, 2)
    /\ Cardinality(PocketIdx) = 18
    /\ p[19].xforms[3].angle = RInt(265)

(***************************************************************************)
(* C6.  total_x = cell_count_x * cell_pitch_x + 10                         *)
(*                + 2 * (arm_width_on_long_side + arm_gap_width) and       *)
(* total_y = cell_count_y * cell_pitch_y + 10, and the base box has these  *)
(* dimensions; for 4 by 2 cells at pitches 6 and 10, total_x is            *)
(* 34 + 2 * (arm_width_on_long_side + arm_gap_width) and total_y is 30.    *)
(***************************************************************************)
C6_Totals ==
    script = "jig" =>
        LET cells_x == R(spec.cell_count_x * spec.cell_pitch_x[1],
                         spec.cell_pitch_x[2])
            cells_y == R(spec.cell_count_y * spec.cell_pitch_y[1],
                         spec.cell_pitch_y[2])
            arms    == RMul(RInt(2), RAdd(spec.arm_width_on_long_side,
                                          spec.arm_gap_width))
        IN  /\ total_x(spec) = RAdd(RAdd(cells_x, RInt(10)), arms)
            /\ total_y(spec) = RAdd(cells_y, RInt(10))
            /\ (spec.cell_count_x = 4 /\ spec.cell_count_y = 2
                    /\ spec.cell_pitch_x = RInt(6)
                    /\ spec.cell_pitch_y = RInt(10)
                  => /\ total_x(spec) = RAdd(RInt(34), arms)
                     /\ total_y(spec) = RInt(30))
            /\ (p # <<>> => /\ p[1].dims[1] = RAdd(RAdd(cells_x, RInt(10)), arms)
                            /\ p[1].dims[2] = RAdd(cells_y, RInt(10)))

\* The default jig (4 by 2 cells, pitches 6 and 10, arms 5 and 6) has its
\* base box: 56 by 30.
C6_Witness ==
    /\ script = "jig"
    /\ spec.cell_count_x = 4
    /\ spec.cell_count_y = 2
    /\ spec.cell_pitch_x = RInt(6)
    /\ spec.cell_pitch_y = RInt(10)
    /\ p # <<>>
    /\ p[1].dims[1] = RInt(56)
    /\ p[1].dims[2] = RInt(30)

(***************************************************************************)
(* C8.  The pockets of magnetic_pulley.                                    *)
(***************************************************************************)
\* The pocket loops have run to their end.
PocketsDone == p # <<>> /\ pc \in {"sides", "hole", "return", "returned"}

\* The signed radial coordinate of a pocket's floor.
FloorRadius(sp) == RSub(RDiv(pulley_body_od(sp), RInt(2)), sp.magnet_h)

\* Every pocket is the same prism under the same chain of transforms:
\* turned about Y by 90 degrees, so that its axis points along +X, then
\* moved to the radial coordinate pulley_body_od/2 - magnet_h at the dot's
\* axial position, then turned about the pulley axis by the dot's angle.
PocketsAlike ==
    \A i \in PocketIdx :
        LET op    == p[i]
            floor == AxisPoint(op, Zero)
            tip   == AxisPoint(op, op.dims[2])
        IN  /\ op.dims = p[2].dims
            /\ op.dims[2] = RInt(5)
            /\ Len(op.xforms) = 3
            /\ op.xforms[1] = Rotate("Y", RInt(90))
            /\ op.xforms[2].t = "translate"
            /\ op.xforms[2].v[1] = FloorRadius(spec)
            /\ op.xforms[2].v[2] = Zero
            /\ op.xforms[3].t = "rotate"
            /\ op.xforms[3].axis = "Z"
            /\ op.xforms[3].angle = ExpectedDotAngle(spec, i - 2)
            /\ floor.x = FloorRadius(spec)
            /\ tip.x = RAdd(FloorRadius(spec), RInt(5))
            /\ floor.y = Zero /\ tip.y = Zero
            /\ floor.z = op.xforms[2].v[3] /\ tip.z = floor.z
            /\ floor.theta = op.xforms[3].angle /\ tip.theta = floor.theta

\* The outer end of every pocket lies beyond the body surface.
PocketsReachOut ==
    \A i \in PocketIdx :
        RLt(RDiv(pulley_body_od(spec), RInt(2)),
            AxisPoint(p[i], p[i].dims[2]).x)

Rank(op) ==
    CASE op.shape = "HexPrism" -> 2
      [] op.shape = "Cylinder" /\ op.kind = "add" /\ op.xforms = <<>> -> 1
      [] op.shape = "Cylinder" /\ op.kind = "add" /\ op.xforms # <<>> -> 3
      [] op.shape = "Cylinder" /\ op.kind = "sub" -> 4

\* Whether the point at radius r and height z (at any angle) lies in the
\* cylinder of operation op, which is coaxial with the pulley.  A cut takes
\* the open cylinder away.
InCylinder(op, r, z) ==
    /\ IF op.kind = "add" THEN RLe(r, op.dims[1]) ELSE RLt(r, op.dims[1])
    /\ RLe(ZRange(op)[1], z)
    /\ RLe(z, ZRange(op)[2])

\* Whether the first i operations of ops can leave material at radius r and
\* height z at some angle: the last cylinder that holds the point decides;
\* a pocket only removes material, so that it is passed over.
RECURSIVE MayHaveMaterial(_, _, _, _)
MayHaveMaterial(ops, i, r, z) ==
    IF i = 0 THEN FALSE
    ELSE IF ops[i].shape = "Cylinder" /\ InCylinder(ops[i], r, z)
         THEN ops[i].kind = "add"
         ELSE MayHaveMaterial(ops, i - 1, r, z)

\* The heights probed: -MaxZSample/4 .. MaxZSample/4 mm in steps of 0.25 mm
\* (beyond either end of the pulley) and the faces of body and flanges.
MaxZSample == 24

ZSamples(sp) ==
    LET half == RDiv(sp.pulley_body_length, RInt(2))
        lip  == sp.flange_lip_height
        faces == {half, RAdd(half, RDiv(lip, RInt(2))), RAdd(half, lip)}
    IN  {R(m, 4) : m \in (-MaxZSample)..MaxZSample}
            \cup faces \cup {RNeg(z) : z \in faces}

\* Radii inside the bore: the axis, the middle, and near the bore's wall.
BoreRadii(sp) ==
    {Zero, RDiv(sp.center_hole_d, RInt(4)),
     RMul(R(9, 20), sp.center_hole_d)}

\* The operations come in the order body, pockets, flanges, bore.
C9_Order ==
    /\ \A a, b \in 1..Len(p) : a < b => Rank(p[a]) <= Rank(p[b])
    /\ Cardinality({i \in 1..Len(p) : Rank(p[i]) = 1}) <= 1
    /\ Cardinality({i \in 1..Len(p) : Rank(p[i]) = 4}) <= 1
    /\ (p # <<>> => Rank(p[1]) = 1)

\* The finished pulley: body, 6 pockets a cell, two flanges on the end faces
\* of the body, and last the centred bore over the whole length.
C9_Finished ==
    LET n    == Len(p)
        half == RDiv(spec.pulley_body_length, RInt(2))
        lip  == spec.flange_lip_height
    IN  /\ n = spec.cell_count_around_circumference * 6 + 4
        /\ Rank(p[n - 2]) = 3 /\ Rank(p[n - 1]) = 3 /\ Rank(p[n]) = 4
        /\ ZRange(p[1]) = <<RNeg(half), half>>
        /\ ZRange(p[n - 2]) = <<half, RAdd(half, lip)>>
        /\ ZRange(p[n - 1]) = <<RNeg(RAdd(half, lip)), RNeg(half)>>
        /\ p[n].dims[2] = RAdd(spec.pulley_body_length, RMul(RInt(2), lip))
        /\ ZRange(p[n]) = <<RNeg(RAdd(half, lip)), RAdd(half, lip)>>
        /\ p[n].dims[1] = RDiv(spec.center_hole_d, RInt(2))
        /\ \A r \in BoreRadii(spec), z \in ZSamples(spec) :
               ~MayHaveMaterial(p, n, r, z)

\* C9: magnetic_pulley applies body cylinder, pocket cuts, flange unions,
\* bore cut in that order; the flanges occupy [length/2, length/2 + lip] and
\* its mirror image; the bore, cut last and centred, spans exactly
\* length + 2 * lip; the returned solid has no material within the bore
\* radius at any height.
C9_Bore ==
    script = "pulley" =>
        /\ C9_Order
        /\ (pc \in {"return", "returned"} => C9_Finished)

\* A pulley is returned whose flanges (lip 1.2) hold material next to the
\* bore (radius 1) and beyond the body's end face, at radius 1 and height 5.
C9_Witness ==
    /\ script = "pulley"
    /\ pc = "returned"
    /\ spec.flange_lip_height = R(12, 10)
    /\ spec.center_hole_d = RInt(2)
    /\ Len(p) = spec.cell_count_around_circumference * 6 + 4
    /\ MayHaveMaterial(p, Len(p), RInt(1), RInt(5))
    /\ ~MayHaveMaterial(p, Len(p), R(9, 10), RInt(5))
    /\ MayHaveMaterial(p, Len(p) - 1, R(9, 10), RInt(5))

(***************************************************************************)
(* C10.  The arm gaps of conveyor_assembly_jig.                            *)
(***************************************************************************)
RMax(a, b) == IF RLt(a, b) THEN b ELSE a

\* How far the value c lies outside the interval [lo, hi] (0 inside it).
Outside(c, lo, hi) == RMax(Zero, RMax(RSub(lo, c), RSub(c, hi)))

\* Whether the magnet hole m (a disc of radius magnet_d/2 seen from above)
\* and the arm gap g (a rectangle seen from above; a negative size counts by
\* its magnitude) share a point of their interiors.
Overlap(m, g) ==
    LET gx == Extent("CENTER", RAbs(g.dims[1]), Centre(g).x)
        gy == Extent("CENTER", RAbs(g.dims[2]), Centre(g).y)
        dx == Outside(Centre(m).x, gx[1], gx[2])
        dy == Outside(Centre(m).y, gy[1], gy[2])
    IN  RLt(RAdd(RMul(dx, dx), RMul(dy, dy)), RMul(m.dims[1], m.dims[1]))

\* C10: the two gaps are mirror images in x; each covers x from
\* cell_count_x * cell_pitch_x / 2 + 5 to that plus arm_gap_width, which
\* leaves exactly arm_width_on_long_side of slab outside it; its y-extent
\* total_y - 2 * arm_width_along_short_gap does not exceed total_y; and when
\* dot_pitch_x <= cell_pitch_x and magnet_d < 10 no magnet hole overlaps a
\* gap.
C10_Gaps ==
    script = "jig" =>
        LET inner == RAdd(R(spec.cell_count_x * spec.cell_pitch_x[1],
                            2 * spec.cell_pitch_x[2]), RInt(5))
            outer == RAdd(inner, spec.arm_gap_width)
            first == JigCutCount(spec) + 2
        IN  /\ \A g \in GapIdx :
                /\ XRange(p[g]) = IF g = first THEN <<inner, outer>>
                                  ELSE <<RNeg(outer), RNeg(inner)>>
                /\ RSub(RDiv(p[1].dims[1], RInt(2)), outer)
                       = spec.arm_width_on_long_side
                /\ p[g].dims[2]
                       = RSub(p[1].dims[2],
                              RMul(RInt(2), spec.arm_width_along_short_gap))
                /\ RLe(p[g].dims[2], p[1].dims[2])
                /\ Centre(p[g]).y = Zero
            /\ (pc \in {"return", "returned"} =>
                  /\ GapIdx = {first, first + 1}
                  /\ XRange(p[first + 1]) = <<RNeg(XRange(p[first])[2]),
                                              RNeg(XRange(p[first])[1])>>
                  /\ YRange(p[first + 1]) = YRange(p[first]))
            /\ (RLe(spec.dot_pitch_x, spec.cell_pitch_x)
                    /\ RLt(spec.magnet_d, RInt(10))
                  => \A m \in PocketIdx, g \in GapIdx : ~Overlap(p[m], p[g]))

\* A jig with dot_pitch_x = cell_pitch_x = 6 and magnet_d = 2.1 is returned
\* with both gaps cut; its outermost holes end 3.95 short of the gaps.
C10_Witness ==
    /\ script = "jig"
    /\ pc = "returned"
    /\ spec.dot_pitch_x = RInt(6)
    /\ spec.cell_pitch_x = RInt(6)
    /\ spec.magnet_d = R(21, 10)
    /\ Cardinality(GapIdx) = 2
    /\ Cardinality(PocketIdx) = JigCutCount(spec)
    /\ \E m \in PocketIdx, g \in GapIdx :
           Outside(Centre(p[m]).x, XRange(p[g])[1], XRange(p[g])[2]) = RInt(5)

\* Outside the precondition a magnet hole can overlap a gap.
C10_OverlapReached ==
    /\ script = "jig"
    /\ \E m \in PocketIdx, g \in GapIdx : Overlap(p[m], p[g])

(***************************************************************************)
(* C7.  The export loop of the __main__ block.                             *)
(***************************************************************************)
\* The positions in events of the records of kind ev about part i.
PartEvents(i, ev) ==
    {e \in 1..Len(events) :
        events[e].ev = ev /\ events[e].name = parts[i].name}

\* The manifold check of part i has run.
Checked(i) == mode = "main" /\ i <= Len(manifold)

\* Part i has been written in both formats.
Exported(i) ==
    /\ i <= Len(parts)
    /\ \E e \in PartEvents(i, "export_stl") :
           events[e].file = parts[i].name \o ".stl"
    /\ \E e \in PartEvents(i, "export_step") :
           events[e].file = parts[i].name \o ".step"

C7_Safety ==
    mode = "main" =>
        /\ (li >= 1 => pc \in {"check", "stl", "step", "done"})
        /\ \A i \in 1..Len(manifold) :
            /\ Cardinality(PartEvents(i, "warning"))
                   = (IF manifold[i] THEN 0 ELSE 1)
            /\ \A w \in PartEvents(i, "warning"),
                  e \in PartEvents(i, "export_stl")
                            \cup PartEvents(i, "export_step") : w < e
            /\ (i < li \/ pc = "done" =>
                  /\ Exported(i)
                  /\ Cardinality(PartEvents(i, "export_stl")) = 1
                  /\ Cardinality(PartEvents(i, "export_step")) = 1)
        /\ \A i \in 1..Len(parts) :
               i > Len(manifold) =>
                   PartEvents(i, "export_stl") \cup PartEvents(i, "export_step")
                       \cup PartEvents(i, "warning") = {}
        /\ (pc = "done" => /\ Len(manifold) = Len(parts)
                           /\ Len(parts) = Len(Parts(script)))

C1_Inside ==
    \A i \in PocketIdx :
        IF script = "jig"
        THEN /\ RLt(RAbs(Centre(p[i]).x), RDiv(total_x(spec), RInt(2)))
             /\ RLt(RAbs(Centre(p[i]).y), RDiv(total_y(spec), RInt(2)))
        ELSE /\ RLt(RAbs(AxisPoint(p[i], Zero).z),
                    RDiv(spec.pulley_body_length, RInt(2)))
             /\ RPos(AxisPoint(p[i], Zero).x)
             /\ RLt(AxisPoint(p[i], Zero).x,
                    RDiv(pulley_body_od(spec), RInt(2)))

(***************************************************************************)
(* C2.  In magnetic_pulley no two pocket cuts coincide: two different      *)
(* (cell, circumferential dot, axial dot) triples never give the same      *)
(* (angle modulo 360, axial position).                                     *)
(***************************************************************************)
Placement(op) ==
    <<RMod360(AxisPoint(op, Zero).theta), AxisPoint(op, Zero).z>>

\* C2: no two pockets cut so far share a placement.
C2_Distinct ==
    script = "pulley" =>
        \A a, b \in PocketIdx : a # b => Placement(p[a]) # Placement(p[b])

(***************************************************************************)
(* C3.  Every pulley Spec that can be constructed has center_hole_d <      *)
(* pulley_body_od and magnet_h < pulley_body_od/2, and the floor of every  *)
(* pocket stays outside the centre bore.                                   *)
(***************************************************************************)
\* Spec(...) has returned a Spec.
Constructed == pc \notin {"Spec", "invalid"}

\* C3: a constructed pulley Spec keeps the bore inside the body and every
\* pocket floor outside the bore.
C3_ClearOfBore ==
    script = "pulley" /\ Constructed =>
        /\ RLt(spec.center_hole_d, pulley_body_od(spec))
        /\ RLt(spec.magnet_h, RDiv(pulley_body_od(spec), RInt(2)))
        /\ \A i \in PocketIdx :
               RLt(RDiv(spec.center_hole_d, RInt(2)), AxisPoint(p[i], Zero).x)

(***************************************************************************)
(* C4.  Constructing a Spec whose parameters violate an invariant (a       *)
(* derived dimension that is not positive, an arm gap whose y-extent is    *)
(* not positive, center_hole_d >= pulley_body_od) fails with an            *)
(* invalid-parameters error before any geometry operation.                 *)
(***************************************************************************)
ValidParameters(s, sp) ==
    IF s = "jig"
    THEN /\ RPos(total_x(sp))
         /\ RPos(total_y(sp))
         /\ RPos(RSub(total_y(sp),
                      RMul(RInt(2), sp.arm_width_along_short_gap)))
    ELSE /\ RPos(pulley_body_circumference(sp))
         /\ RLt(sp.center_hole_d, pulley_body_od(sp))

\* C4: with invalid parameters the constructor has raised, and no geometry
\* operation has been performed.
C4_FailFast ==
    ~ValidParameters(script, spec) /\ pc # "Spec" =>
        pc = "invalid" /\ p = <<>>

====
